---- MODULE Spec2Model ----
(***************************************************************************)
(* A model of the PNG encoder of rust-png: the image buffer (PngImage),    *)
(* its colour model (ColorType), the Sub scanline filter, the chunk framer *)
(* (ChunkWriter) and the file assembler (PngImage::write_to_file).         *)
(*                                                                         *)
(* Bytes are the integers 0..255.  A u32 that is written to the sink is    *)
(* kept as its four big-endian bytes, so CRC-32 and Adler-32 are computed  *)
(* on byte tuples and never leave the range of the model checker's ints.   *)
(***************************************************************************)
EXTENDS Integers, Sequences, FiniteSets, TLC

(***************************************************************************)
(* Bounds of the model.                                                    *)
(***************************************************************************)
\* images hold MaxPixels pixels at most (width * height <= MaxPixels)
MaxPixels == 4
\* add_pixel is called with 0..MaxComponents components
MaxComponents == 5
\* set_palette is called with palettes of 0..MaxPaletteLen bytes, and with
\* the lengths around the 256-entry limit (PaletteLens)
MaxPaletteLen == 7
\* the sink accepts k * BudgetStep bytes, k \in 0..MaxBudgetSteps, or all
BudgetStep == 11
MaxBudgetSteps == 6
\* write_chunk is applied to payloads of 0..MaxPayload bytes
MaxPayload == 3

(***************************************************************************)
(* Program constants.                                                      *)
(***************************************************************************)
\* lib.rs:64  width > 0x7FFF || height > 0x7FFF
MAX_DIMENSION == 32767
\* lib.rs:181  palette.len() > 256 * 3
MAX_PALETTE_BYTES == 768
\* lib.rs:104  bit depth pushed by generate_ihdr
BIT_DEPTH == 8
\* lib.rs:125  filter type tag pushed before every scanline
FILTER_SUB == 1

Byte == 0..255

ColorTypes == {"Grayscale", "Rgb", "GrayscaleAlpha", "Rgba", "Indexed"}

(***************************************************************************)
(* Sequence helpers.                                                       *)
(***************************************************************************)
Take(s, n) == SubSeq(s, 1, IF n < Len(s) THEN n ELSE Len(s))

Drop(s, n) == SubSeq(s, n + 1, Len(s))

IsPrefix(p, s) == Len(p) <= Len(s) /\ Take(s, Len(p)) = p

RECURSIVE Flatten(_)
Flatten(ss) == IF ss = <<>> THEN <<>> ELSE Head(ss) \o Flatten(Tail(ss))

\* u32::to_be_bytes, for values below 2^31
to_be_bytes(n) ==
    << (n \div 16777216) % 256, (n \div 65536) % 256, (n \div 256) % 256, n % 256 >>

\* u32::from_be_bytes, used to parse a chunk back
from_be_bytes(b) == ((b[1] * 256 + b[2]) * 256 + b[3]) * 256 + b[4]

\* u8::wrapping_sub
wrapping_sub(a, b) == (a - b + 256) % 256

\* u8::wrapping_add, used by the inverse of the Sub filter
wrapping_add(a, b) == (a + b) % 256

(***************************************************************************)
(* Results.  Ok and the variants of PngError (error.rs), each with the     *)
(* fields it carries.                                                      *)
(***************************************************************************)
Ok == [kind |-> "Ok", info |-> <<>>]

InvalidDimensions(w, h) == [kind |-> "InvalidDimensions", info |-> <<w, h>>]

Io == [kind |-> "Io", info |-> <<>>]

ColorTypeError == [kind |-> "ColorTypeError", info |-> <<>>]

ComponentCountMismatch(expected, actual, ct) ==
    [kind |-> "ComponentCountMismatch", info |-> <<expected, actual, ct>>]

PixelCountMismatch(expected, actual, w, h) ==
    [kind |-> "PixelCountMismatch", info |-> <<expected, actual, w, h>>]

InvalidPalette(msg) == [kind |-> "InvalidPalette", info |-> <<msg>>]

InvalidPaletteEntry(index) == [kind |-> "InvalidPaletteEntry", info |-> <<index>>]

(***************************************************************************)
(* Option<Vec<u8>>                                                         *)
(***************************************************************************)
None == [some |-> FALSE, v |-> <<>>]

Some(v) == [some |-> TRUE, v |-> v]

(***************************************************************************)
(* ColorType (lib.rs 19-52)                                                *)
(***************************************************************************)
png_header_code(ct) ==
    CASE ct = "Grayscale" -> 0
      [] ct = "Rgb" -> 2
      [] ct = "GrayscaleAlpha" -> 4
      [] ct = "Rgba" -> 6
      [] ct = "Indexed" -> 3

bytes_per_pixel(ct) ==
    CASE ct = "Grayscale" -> 1
      [] ct = "Rgb" -> 3
      [] ct = "GrayscaleAlpha" -> 2
      [] ct = "Rgba" -> 4
      [] ct = "Indexed" -> 1

validate_components(ct, components) ==
    LET expected == bytes_per_pixel(ct)
    IN  IF Len(components) # expected
        THEN ComponentCountMismatch(expected, Len(components), ct)
        ELSE Ok

(***************************************************************************)
(* PngImage (lib.rs 54-95, 170-201).  An image is a record of its fields;  *)
(* an operation returns the image after the call and the call's result.    *)
(***************************************************************************)
PngImage_new(w, h, ct) ==
    IF w = 0 \/ h = 0 \/ w > MAX_DIMENSION \/ h > MAX_DIMENSION
    THEN [self |-> None, result |-> InvalidDimensions(w, h)]
    ELSE [self |-> [width |-> w, height |-> h, data |-> <<>>,
                    color_type |-> ct, palette |-> None],
          result |-> Ok]

\* mutant: the fullness test is > instead of >=
add_pixel_off_by_one(self, components) ==
    LET v == validate_components(self.color_type, components)
        max_pixels == self.width * self.height
        current_pixels == Len(self.data) \div bytes_per_pixel(self.color_type)
    IN  IF v.kind # "Ok" THEN [self |-> self, result |-> v]
        ELSE IF current_pixels > max_pixels
        THEN [self |-> self,
              result |-> PixelCountMismatch(max_pixels, current_pixels + 1,
                                            self.width, self.height)]
        ELSE [self |-> [self EXCEPT !.data = @ \o components], result |-> Ok]

\* mutant: the fullness test comes before the count check
add_pixel_full_first(self, components) ==
    LET v == validate_components(self.color_type, components)
        max_pixels == self.width * self.height
        current_pixels == Len(self.data) \div bytes_per_pixel(self.color_type)
    IN  IF current_pixels >= max_pixels
        THEN [self |-> self,
              result |-> PixelCountMismatch(max_pixels, current_pixels + 1,
                                            self.width, self.height)]
        ELSE IF v.kind # "Ok" THEN [self |-> self, result |-> v]
        ELSE [self |-> [self EXCEPT !.data = @ \o components], result |-> Ok]

\* mutant: the bytes are appended before the fullness test
add_pixel_append_first(self, components) ==
    LET v == validate_components(self.color_type, components)
        max_pixels == self.width * self.height
        current_pixels == Len(self.data) \div bytes_per_pixel(self.color_type)
        grown == [self EXCEPT !.data = @ \o components]
    IN  IF v.kind # "Ok" THEN [self |-> self, result |-> v]
        ELSE IF current_pixels >= max_pixels
        THEN [self |-> grown,
              result |-> PixelCountMismatch(max_pixels, current_pixels + 1,
                                            self.width, self.height)]
        ELSE [self |-> grown, result |-> Ok]

\* width * height is a u32 product of two values of at most 0x7FFF: it does
\* not wrap
add_pixel(self, components) ==
    LET v == validate_components(self.color_type, components)
        max_pixels == self.width * self.height
        current_pixels == Len(self.data) \div bytes_per_pixel(self.color_type)
    IN  IF v.kind # "Ok" THEN [self |-> self, result |-> v]
        ELSE IF current_pixels >= max_pixels
        THEN [self |-> self,
              result |-> PixelCountMismatch(max_pixels, current_pixels + 1,
                                            self.width, self.height)]
        ELSE [self |-> [self EXCEPT !.data = @ \o components], result |-> Ok]

\* mutant: the 256-entry limit is tested on one entry too many
set_palette_limit_slip(self, palette) ==
    IF self.color_type # "Indexed"
    THEN [self |-> self, result |-> ColorTypeError]
    ELSE IF Len(palette) % 3 # 0
    THEN [self |-> self,
          result |-> InvalidPalette("Palette must contain RGB triplets")]
    ELSE IF Len(palette) > MAX_PALETTE_BYTES + 3
    THEN [self |-> self,
          result |-> InvalidPalette("Palette cannot exceed 256 entries")]
    ELSE [self |-> [self EXCEPT !.palette = Some(palette)], result |-> Ok]

set_palette(self, palette) ==
    IF self.color_type # "Indexed"
    THEN [self |-> self, result |-> ColorTypeError]
    ELSE IF Len(palette) % 3 # 0
    THEN [self |-> self,
          result |-> InvalidPalette("Palette must contain RGB triplets")]
    ELSE IF Len(palette) > MAX_PALETTE_BYTES
    THEN [self |-> self,
          result |-> InvalidPalette("Palette cannot exceed 256 entries")]
    ELSE [self |-> [self EXCEPT !.palette = Some(palette)], result |-> Ok]

\* usize::saturating_sub
saturating_sub(a, b) == IF a < b THEN 0 ELSE a - b

\* the first stored byte above max_index, in buffer order
validate_palette_indices(self) ==
    IF self.palette.some
    THEN LET max_index == saturating_sub(Len(self.palette.v) \div 3, 1)
             bad == {i \in 1..Len(self.data) : self.data[i] > max_index}
         IN  IF bad = {} THEN Ok
             ELSE InvalidPaletteEntry(
                      self.data[CHOOSE i \in bad : \A j \in bad : i <= j])
    ELSE Ok

(***************************************************************************)
(* Scanline filter (lib.rs 119-136).  chunks_exact yields the complete     *)
(* rows of the buffer only; each row is filtered with a fresh prev vector. *)
(***************************************************************************)
\* The accumulators of the loops below are bound by a quantifier over a
\* one-element set ({f(v) : v \in {e}}), which makes v the value of e.
RECURSIVE filter_row(_, _, _, _)
filter_row(row, i, prev, bpp) ==
    IF i > Len(row) THEN <<>>
    ELSE LET channel == (i - 1) % bpp
             byte == row[i]
         IN  <<wrapping_sub(byte, prev[channel + 1])>>
                 \o (CHOOSE rest \in {filter_row(row, i + 1, p, bpp) :
                                        p \in {[prev EXCEPT ![channel + 1] = byte]}} : TRUE)

\* slice::chunks_exact: the k-th complete chunk of chunk_size elements
chunks_exact(s, chunk_size) ==
    [k \in 1..(Len(s) \div chunk_size) |->
        SubSeq(s, (k - 1) * chunk_size + 1, k * chunk_size)]

filter_scanlines(self) ==
    LET bpp == bytes_per_pixel(self.color_type)
        row_length == self.width * bpp
        rows == chunks_exact(self.data, row_length)
    IN  Flatten([k \in 1..Len(rows) |->
                    <<FILTER_SUB>> \o filter_row(rows[k], 1, [c \in 1..bpp |-> 0], bpp)])

(***************************************************************************)
(* CRC-32/ISO-HDLC (chunks.rs 5, 27): reflected polynomial EDB88320,       *)
(* initial value and final xor FFFFFFFF.  A register is its four bytes,    *)
(* most significant first.                                                 *)
(***************************************************************************)
RECURSIVE xor_bits(_, _, _)
xor_bits(a, b, n) ==
    IF n = 0 THEN 0 ELSE ((a + b) % 2) + 2 * xor_bits(a \div 2, b \div 2, n - 1)

\* a ^ b on bytes, tabulated
XorTable == CHOOSE f \in {[a \in Byte |-> [b \in Byte |-> xor_bits(a, b, 8)]]} : TRUE

xor8(a, b) == XorTable[a][b]

xor32(x, y) == <<xor8(x[1], y[1]), xor8(x[2], y[2]), xor8(x[3], y[3]), xor8(x[4], y[4])>>

\* logical shift right by one bit of a four-byte register
shr1(x) ==
    <<x[1] \div 2, (x[1] % 2) * 128 + x[2] \div 2,
      (x[2] % 2) * 128 + x[3] \div 2, (x[3] % 2) * 128 + x[4] \div 2>>

\* logical shift right by eight bits
shr8(x) == <<0, x[1], x[2], x[3]>>

CRC_POLY == <<237, 184, 131, 32>>

CRC_INIT == <<255, 255, 255, 255>>

CRC_XOROUT == <<255, 255, 255, 255>>

crc_bit(reg) == IF reg[4] % 2 = 1 THEN xor32(shr1(reg), CRC_POLY) ELSE shr1(reg)

crc_bits(S) == {crc_bit(reg) : reg \in S}

\* the table of the byte-wise algorithm: entry n is n after eight bit steps
CrcTable ==
    CHOOSE f \in {[n \in Byte |->
        CHOOSE reg \in crc_bits(crc_bits(crc_bits(crc_bits(
                       crc_bits(crc_bits(crc_bits(crc_bits({<<0, 0, 0, n>>})))))))) : TRUE]} : TRUE

crc_byte(reg, b) == xor32(CrcTable[xor8(reg[4], b)], shr8(reg))

\* the register after bytes[lo..hi], left to right
RECURSIVE crc_update(_, _, _, _)
crc_update(reg, bytes, lo, hi) ==
    IF lo > hi THEN reg
    ELSE IF lo = hi THEN CHOOSE r \in {crc_byte(v, bytes[lo]) : v \in {reg}} : TRUE
    ELSE LET mid == (lo + hi) \div 2
         IN  CHOOSE r \in {crc_update(l, bytes, mid + 1, hi) :
                             l \in {crc_update(reg, bytes, lo, mid)}} : TRUE

\* Crc::checksum, as the four big-endian bytes of the u32
checksum(bytes) ==
    CHOOSE c \in {xor32(reg, CRC_XOROUT) :
                    reg \in {crc_update(CRC_INIT, b, 1, Len(b)) : b \in {bytes}}} : TRUE

(***************************************************************************)
(* The compressor (lib.rs 161-163).  flate2 is an external library; the    *)
(* model emits the zlib stream of the same input made of stored blocks:    *)
(* the two header bytes, one stored block (final flag, LEN, NLEN, the raw  *)
(* bytes) and the Adler-32 of the input.  Writing to a Vec cannot fail.    *)
(***************************************************************************)
ADLER_MOD == 65521

\* the pair of sums <<a, b>> after bytes[lo..hi], left to right
RECURSIVE adler_sums(_, _, _, _)
adler_sums(s, bytes, lo, hi) ==
    IF lo > hi THEN s
    ELSE IF lo = hi
    THEN CHOOSE r \in {<<(v[1] + bytes[lo]) % ADLER_MOD,
                         (v[2] + v[1] + bytes[lo]) % ADLER_MOD>> : v \in {s}} : TRUE
    ELSE LET mid == (lo + hi) \div 2
         IN  CHOOSE r \in {adler_sums(l, bytes, mid + 1, hi) :
                             l \in {adler_sums(s, bytes, lo, mid)}} : TRUE

adler32(bytes) ==
    CHOOSE r \in {<<s[2] \div 256, s[2] % 256, s[1] \div 256, s[1] % 256>> :
                    s \in {adler_sums(<<1, 0>>, b, 1, Len(b)) : b \in {bytes}}} : TRUE

compress(bytes) ==
    CHOOSE out \in
        {<<120, 156>>
           \o <<1, Len(b) % 256, Len(b) \div 256,
                255 - (Len(b) % 256), 255 - (Len(b) \div 256)>>
           \o b
           \o adler32(b) : b \in {bytes}} : TRUE

(***************************************************************************)
(* The sink.  A writer is the bytes it holds, the number of bytes it still *)
(* accepts before its write fails (negative: it never fails) and whether a *)
(* write has failed.  Every write of the encoder is followed by `?`: once  *)
(* a write has failed nothing more is written.                             *)
(***************************************************************************)
Writer(buf, left) == [buf |-> buf, left |-> left, err |-> FALSE]

\* Write::write_all: writes until the buffer is empty or a write fails
write_all(w, bytes) ==
    IF w.err THEN w
    ELSE IF w.left < 0 \/ Len(bytes) <= w.left
    THEN [w EXCEPT !.buf = @ \o bytes,
                   !.left = IF @ < 0 THEN @ ELSE @ - Len(bytes)]
    ELSE [w EXCEPT !.buf = @ \o Take(bytes, w.left), !.left = 0, !.err = TRUE]

(***************************************************************************)
(* ChunkWriter::write_chunk (chunks.rs 10-33)                              *)
(***************************************************************************)
\* mutant: the checksum covers the length field too
write_chunk_crc_with_length(w, chunk_type, data) ==
    LET length == to_be_bytes(Len(data))
        crc == checksum(length \o chunk_type \o data)
    IN  write_all(write_all(write_all(write_all(w, length), chunk_type), data), crc)

write_chunk(w, chunk_type, data) ==
    LET length == to_be_bytes(Len(data))
        w1 == write_all(w, length)
        w2 == write_all(w1, chunk_type)
        w3 == write_all(w2, data)
        crc_data == chunk_type \o data
        crc == IF w3.err THEN <<>> ELSE checksum(crc_data)
    IN  write_all(w3, crc)

IHDR == <<73, 72, 68, 82>>

PLTE == <<80, 76, 84, 69>>

IDAT == <<73, 68, 65, 84>>

IEND == <<73, 69, 78, 68>>

SIGNATURE == <<137, 80, 78, 71, 13, 10, 26, 10>>

(***************************************************************************)
(* PngImage::generate_ihdr (lib.rs 97-117)                                 *)
(***************************************************************************)
generate_ihdr(self) ==
    to_be_bytes(self.width) \o to_be_bytes(self.height)
        \o <<BIT_DEPTH, png_header_code(self.color_type), 0, 0, 0>>

(***************************************************************************)
(* PngImage::write_to_file (lib.rs 138-168).  Returns the writer after the *)
(* call and the call's result; the image is borrowed immutably.            *)
(***************************************************************************)
\* the writes of lines 148-165, in order
write_body(self, w) ==
    LET w1 == write_all(w, SIGNATURE)
        w2 == write_chunk(w1, IHDR, generate_ihdr(self))
        w3 == IF self.palette.some THEN write_chunk(w2, PLTE, self.palette.v) ELSE w2
        filtered == filter_scanlines(self)
        compressed == compress(filtered)
        w4 == write_chunk(w3, IDAT, compressed)
    IN  write_chunk(w4, IEND, <<>>)

\* mutant: the signature is written before the checks of 139-146
write_to_file_signature_first(self, w) ==
    LET w1 == write_all(w, SIGNATURE)
        v == validate_palette_indices(self)
    IN  IF self.color_type = "Indexed" /\ ~self.palette.some
        THEN [writer |-> w1,
              result |-> InvalidPalette("Palette required for indexed color")]
        ELSE IF self.color_type = "Indexed" /\ v.kind # "Ok"
        THEN [writer |-> w1, result |-> v]
        ELSE LET wn == write_body(self, w)
             IN  [writer |-> wn, result |-> IF wn.err THEN Io ELSE Ok]

\* mutant: PLTE is written after IDAT
write_to_file_plte_late(self, w) ==
    LET v == validate_palette_indices(self)
        w1 == write_all(w, SIGNATURE)
        w2 == write_chunk(w1, IHDR, generate_ihdr(self))
        w3 == write_chunk(w2, IDAT, compress(filter_scanlines(self)))
        w4 == IF self.palette.some THEN write_chunk(w3, PLTE, self.palette.v) ELSE w3
        wn == write_chunk(w4, IEND, <<>>)
    IN  IF self.color_type = "Indexed" /\ ~self.palette.some
        THEN [writer |-> w,
              result |-> InvalidPalette("Palette required for indexed color")]
        ELSE IF self.color_type = "Indexed" /\ v.kind # "Ok"
        THEN [writer |-> w, result |-> v]
        ELSE [writer |-> wn, result |-> IF wn.err THEN Io ELSE Ok]

write_to_file(self, w) ==
    LET v == validate_palette_indices(self)
    IN  IF self.color_type = "Indexed" /\ ~self.palette.some
        THEN [writer |-> w,
              result |-> InvalidPalette("Palette required for indexed color")]
        ELSE IF self.color_type = "Indexed" /\ v.kind # "Ok"
        THEN [writer |-> w, result |-> v]
        ELSE LET wn == write_body(self, w)
             IN  [writer |-> wn, result |-> IF wn.err THEN Io ELSE Ok]

(***************************************************************************)
(* The state: the fields of one PngImage and the call in hand: its name    *)
(* ("none" between calls), its byte argument, the writer handed to it (the *)
(* bytes the writer held and the number of bytes it would still accept),   *)
(* the result the call returned and the writer after the call (an empty    *)
(* writer that never fails when the call took none).  `appended` lists the *)
(* components of the add_pixel calls that returned Ok, in call order.      *)
(***************************************************************************)
VARIABLES width, height, data, color_type, palette, call, result, writer, appended

vars == <<width, height, data, color_type, palette, call, result, writer, appended>>

image == <<width, height, data, color_type, palette>>

Self == [width |-> width, height |-> height, data |-> data,
         color_type |-> color_type, palette |-> palette]

NoWriter == Writer(<<>>, -1)

Call(op, tag, arg, w) ==
    [op |-> op, tag |-> tag, arg |-> arg, buf |-> w.buf, left |-> w.left]

NoCall == Call("none", <<>>, <<>>, NoWriter)

Pending == [kind |-> "Pending", info |-> <<>>]

(***************************************************************************)
(* Inputs.                                                                 *)
(***************************************************************************)
Dims == 0..MaxPixels

\* a pixel of n components starting at byte b
RECURSIVE PixelOf(_, _)
PixelOf(n, b) == IF n = 0 THEN <<>> ELSE Append(PixelOf(n - 1, b), (b + 3 * (n - 1)) % 256)

PixelBases == {0, 255}

PixelInputs == {PixelOf(n, b) : n \in 0..MaxComponents, b \in PixelBases}

PaletteLens ==
    (0..MaxPaletteLen) \cup {MAX_PALETTE_BYTES - 3, MAX_PALETTE_BYTES,
                             MAX_PALETTE_BYTES + 1, MAX_PALETTE_BYTES + 3}

PaletteOf(n) == [i \in 1..n |-> (7 * i) % 256]

PaletteInputs == {PaletteOf(n) : n \in PaletteLens}

Budgets == {k * BudgetStep : k \in 0..MaxBudgetSteps} \cup {-1}

Prefills == {<<>>, <<42>>}

WriterInputs == {Writer(p, b) : p \in Prefills, b \in Budgets}

(***************************************************************************)
(* The image's life: PngImage::new, then any calls of add_pixel,           *)
(* set_palette and write_to_file, one at a time: a call runs to its end,   *)
(* and the caller takes its result (Return) before the next call.          *)
(***************************************************************************)
Init ==
    \E w \in Dims, h \in Dims, ct \in ColorTypes :
        LET r == PngImage_new(w, h, ct)
        IN  /\ w * h <= MaxPixels
            /\ r.result.kind = "Ok"
            /\ width = r.self.width
            /\ height = r.self.height
            /\ data = r.self.data
            /\ color_type = r.self.color_type
            /\ palette = r.self.palette
            /\ call = Call("new", <<>>, <<>>, NoWriter)
            /\ result = r.result
            /\ writer = NoWriter
            /\ appended = <<>>

SetImage(self) ==
    /\ width' = self.width
    /\ height' = self.height
    /\ data' = self.data
    /\ color_type' = self.color_type
    /\ palette' = self.palette

AddPixel ==
    /\ call.op = "none"
    /\ \E components \in PixelInputs :
        LET r == add_pixel(Self, components)
        IN  /\ SetImage(r.self)
            /\ call' = Call("add_pixel", <<>>, components, NoWriter)
            /\ result' = r.result
            /\ writer' = NoWriter
            /\ appended' = IF r.result.kind = "Ok"
                           THEN Append(appended, components) ELSE appended

SetPalette ==
    /\ call.op = "none"
    /\ \E p \in PaletteInputs :
        LET r == set_palette(Self, p)
        IN  /\ SetImage(r.self)
            /\ call' = Call("set_palette", <<>>, p, NoWriter)
            /\ result' = r.result
            /\ writer' = NoWriter
            /\ UNCHANGED appended

WriteToFile ==
    /\ call.op = "none"
    /\ \E w \in WriterInputs :
        LET r == write_to_file(Self, w)
        IN  /\ call' = Call("write_to_file", <<>>, <<>>, w)
            /\ result' = r.result
            /\ writer' = r.writer
            /\ UNCHANGED <<image, appended>>

Return ==
    /\ call.op # "none"
    /\ call' = NoCall
    /\ result' = Ok
    /\ writer' = NoWriter
    /\ UNCHANGED <<image, appended>>

Next == AddPixel \/ SetPalette \/ WriteToFile \/ Return

Spec == Init /\ [][Next]_vars

(***************************************************************************)
(* The chunk framer on its own: write_chunk applied once to any type tag   *)
(* and payload, on a writer that fails after any number of bytes or never. *)
(***************************************************************************)
TagInputs == {IHDR, PLTE, IDAT, IEND}

PayloadBytes == {0, 255}

PayloadInputs == UNION {[1..n -> PayloadBytes] : n \in 0..MaxPayload}

ChunkWriterInputs ==
    {Writer(p, b) : p \in Prefills, b \in (0..(12 + MaxPayload)) \cup {-1}}

InitChunk ==
    \E tag \in TagInputs, payload \in PayloadInputs, w \in ChunkWriterInputs :
        /\ width = 1
        /\ height = 1
        /\ data = <<>>
        /\ color_type = "Grayscale"
        /\ palette = None
        /\ call = Call("write_chunk", tag, payload, w)
        /\ result = Pending
        /\ writer = w
        /\ appended = <<>>

WriteChunk ==
    /\ call.op = "write_chunk"
    /\ result = Pending
    /\ LET wn == write_chunk(writer, call.tag, call.arg)
       IN  /\ result' = IF wn.err THEN Io ELSE Ok
           /\ writer' = wn
           /\ UNCHANGED <<image, call, appended>>

NextChunk == WriteChunk

SpecChunk == InitChunk /\ [][NextChunk]_vars

(***************************************************************************)
(* The claims.  What a claim states about bytes-per-pixel, format codes,   *)
(* the inverse filter and the parsing of chunks is defined here, apart     *)
(* from the operators that model the code.                                 *)
(***************************************************************************)
\* bytes-per-pixel 1, 3, 2, 4, 1 as the specification lists them
SpecBytesPerPixel ==
    [Grayscale |-> 1, Rgb |-> 3, GrayscaleAlpha |-> 2, Rgba |-> 4, Indexed |-> 1]

\* format codes as the specification lists them
SpecFormatCode ==
    [Grayscale |-> 0, Rgb |-> 2, Indexed |-> 3, GrayscaleAlpha |-> 4, Rgba |-> 6]

Pixels == Len(data) \div SpecBytesPerPixel[color_type]

Capacity == width * height

\* the bytes the last call appended to its writer
Written == Drop(writer.buf, Len(call.buf))

\* the inverse Sub predictor on one row without its tag, left to right
RECURSIVE unfilter_row(_, _, _)
unfilter_row(frow, bpp, out) ==
    IF Len(out) = Len(frow) THEN out
    ELSE LET i == Len(out) + 1
             left == IF i > bpp THEN out[i - bpp] ELSE 0
         IN  CHOOSE r \in {unfilter_row(frow, bpp, o) :
                             o \in {Append(out, wrapping_add(frow[i], left))}} : TRUE

\* strip the tag of every row of 1 + w * bpp bytes and undo the predictor
unfilter(filtered, w, bpp) ==
    LET stride == 1 + w * bpp
    IN  Flatten([k \in 1..(Len(filtered) \div stride) |->
            unfilter_row(SubSeq(filtered, (k - 1) * stride + 2, k * stride), bpp, <<>>)])

\* the chunks of a byte sequence, read back by their length fields; a chunk
\* that does not fit is reported with the tag <<>>
RECURSIVE ParseChunks(_)
ParseChunks(bytes) ==
    IF bytes = <<>> THEN <<>>
    ELSE IF Len(bytes) < 12 THEN <<[tag |-> <<>>, payload |-> bytes, crc |-> <<>>]>>
    ELSE LET n == from_be_bytes(SubSeq(bytes, 1, 4))
         IN  IF Len(bytes) < 12 + n
             THEN <<[tag |-> <<>>, payload |-> bytes, crc |-> <<>>]>>
             ELSE <<[tag |-> SubSeq(bytes, 5, 8),
                     payload |-> SubSeq(bytes, 9, 8 + n),
                     crc |-> SubSeq(bytes, 9 + n, 12 + n)]>>
                    \o ParseChunks(Drop(bytes, 12 + n))

\* C1: an Indexed image's write_to_file fails with InvalidPalette when no
\* palette is set, and with InvalidPaletteEntry whenever a stored pixel byte
\* is >= the entry count (length / 3) of the palette in force.
C1_IndexedEncodeRejects ==
    (call.op = "write_to_file" /\ color_type = "Indexed") =>
        /\ ~palette.some => result.kind = "InvalidPalette"
        /\ (palette.some /\ \E i \in 1..Len(data) : data[i] >= Len(palette.v) \div 3)
               => result.kind = "InvalidPaletteEntry"

\* C2: stripping the tags of filter_scanlines' output and applying the
\* inverse Sub predictor gives back the pixel buffer, for every buffer that
\* add_pixel can build.
C2_FilterRoundTrip ==
    unfilter(filter_scanlines(Self), width, SpecBytesPerPixel[color_type]) = data

\* C3: the stored pixel count never exceeds width * height; add_pixel with
\* the right component count fails with PixelCountMismatch on a full image,
\* and on an image that is not full it succeeds and grows the buffer by
\* bytes-per-pixel bytes.
C3_PixelCountBound ==
    [][ /\ Pixels <= Capacity
        /\ Pixels' <= Capacity'
        /\ (call'.op = "add_pixel"
              /\ Len(call'.arg) = SpecBytesPerPixel[color_type]) =>
             /\ Pixels = Capacity =>
                  (result'.kind = "PixelCountMismatch" /\ data' = data)
             /\ Pixels < Capacity =>
                  /\ result'.kind = "Ok"
                  /\ Len(data') = Len(data) + SpecBytesPerPixel[color_type]
      ]_vars

C3_Witness ==
    /\ call.op = "add_pixel"
    /\ result.kind = "PixelCountMismatch"
    /\ Pixels = Capacity
    /\ Capacity > 1

\* C4: add_pixel with a component count other than the mode's
\* bytes-per-pixel fails with ComponentCountMismatch carrying the expected
\* count, the actual count and the mode, also on a full image.
C4_ComponentCountFirst ==
    (call.op = "add_pixel" /\ Len(call.arg) # SpecBytesPerPixel[color_type]) =>
        /\ result.kind = "ComponentCountMismatch"
        /\ result.info = <<SpecBytesPerPixel[color_type], Len(call.arg), color_type>>

C4_Witness ==
    /\ call.op = "add_pixel"
    /\ Len(call.arg) # SpecBytesPerPixel[color_type]
    /\ Pixels = Capacity
    /\ result.kind = "ComponentCountMismatch"

\* C5: set_palette succeeds exactly on an Indexed image with a length that
\* is a multiple of 3 and at most 768, and then the palette is its argument;
\* otherwise ColorTypeError (not Indexed) or InvalidPalette.  A palette is
\* present only in Indexed mode, with such a length.
C5_SetPalette ==
    /\ call.op = "set_palette" =>
         result.kind =
             IF color_type # "Indexed" THEN "ColorTypeError"
             ELSE IF Len(call.arg) % 3 # 0 \/ Len(call.arg) > 768 THEN "InvalidPalette"
             ELSE "Ok"
    /\ (call.op = "set_palette" /\ result.kind = "Ok") => palette = Some(call.arg)
    /\ palette.some =>
         /\ color_type = "Indexed"
         /\ Len(palette.v) % 3 = 0
         /\ Len(palette.v) <= 768

C5_Witness ==
    /\ call.op = "set_palette"
    /\ result.kind = "Ok"
    /\ Len(palette.v) = 768

\* C6: when write_to_file fails its precondition (palette missing, or an
\* index out of range) the writer holds what it held before the call.
C6_NothingWrittenOnPrecondition ==
    (call.op = "write_to_file"
       /\ result.kind \in {"InvalidPalette", "InvalidPaletteEntry"}) =>
        /\ writer.buf = call.buf
        /\ ~writer.err

C6_Witness ==
    /\ call.op = "write_to_file"
    /\ result.kind = "InvalidPaletteEntry"
    /\ call.buf # <<>>
    /\ writer.buf = call.buf

\* C7: a successful write_to_file appends the signature, one IHDR chunk with
\* the 13-byte header, a PLTE chunk with the palette bytes exactly when a
\* palette is set, one IDAT chunk and one empty IEND chunk, in this order
\* and nothing else; when a write fails the bytes appended are a proper
\* prefix of that sequence, as long as the writer accepted.
C7_FileLayout ==
    call.op = "write_to_file" =>
        /\ result.kind \in {"Ok", "Io", "InvalidPalette", "InvalidPaletteEntry"}
        /\ IsPrefix(call.buf, writer.buf)
        /\ result.kind = "Ok" =>
             LET chunks == ParseChunks(Drop(Written, 8))
                 n == Len(chunks)
             IN  /\ Take(Written, 8) = <<137, 80, 78, 71, 13, 10, 26, 10>>
                 /\ [k \in 1..n |-> chunks[k].tag] =
                        <<IHDR>> \o (IF palette.some THEN <<PLTE>> ELSE <<>>)
                                 \o <<IDAT, IEND>>
                 /\ Len(chunks[1].payload) = 13
                 /\ from_be_bytes(SubSeq(chunks[1].payload, 1, 4)) = width
                 /\ from_be_bytes(SubSeq(chunks[1].payload, 5, 8)) = height
                 /\ SubSeq(chunks[1].payload, 9, 13) =
                        <<8, SpecFormatCode[color_type], 0, 0, 0>>
                 /\ palette.some => chunks[2].payload = palette.v
                 /\ chunks[n].payload = <<>>
                 /\ \A k \in 1..n :
                        chunks[k].crc = checksum(chunks[k].tag \o chunks[k].payload)
        /\ result.kind = "Io" =>
             LET full == write_to_file(Self, NoWriter).writer.buf
             IN  /\ call.left >= 0
                 /\ Len(Written) = call.left
                 /\ Len(Written) < Len(full)
                 /\ Written = Take(full, Len(Written))

C7_Witness ==
    /\ call.op = "write_to_file"
    /\ result.kind = "Ok"
    /\ palette.some
    /\ Len(palette.v) > 0
    /\ Pixels = Capacity
    /\ call.buf # <<>>

\* C8: write_chunk writes the big-endian payload length, the type tag, the
\* payload and the big-endian crc32 of tag ++ payload, and nothing else;
\* parsing the bytes back recovers the tag and the payload.
C8_ChunkFraming ==
    (call.op = "write_chunk" /\ result.kind = "Ok") =>
        /\ IsPrefix(call.buf, writer.buf)
        /\ Len(Written) = 12 + Len(call.arg)
        /\ from_be_bytes(SubSeq(Written, 1, 4)) = Len(call.arg)
        /\ SubSeq(Written, 5, 8) = call.tag
        /\ SubSeq(Written, 9, 8 + Len(call.arg)) = call.arg
        /\ SubSeq(Written, 9 + Len(call.arg), 12 + Len(call.arg))
               = checksum(call.tag \o call.arg)
        /\ ParseChunks(Written) =
               <<[tag |-> call.tag, payload |-> call.arg,
                  crc |-> checksum(call.tag \o call.arg)]>>

C8_Witness ==
    /\ call.op = "write_chunk"
    /\ result.kind = "Ok"
    /\ Len(call.arg) = MaxPayload
    /\ call.buf # <<>>
    /\ Len(writer.buf) = 1 + 12 + MaxPayload

\* C9: whenever write_to_file returns Ok the filtered bytes compressed into
\* IDAT are height scanlines of 1 + width * bytes-per-pixel bytes, each
\* starting with the tag 1.
C9_FilteredLength ==
    (call.op = "write_to_file" /\ result.kind = "Ok") =>
        LET stride == 1 + width * SpecBytesPerPixel[color_type]
            filtered == filter_scanlines(Self)
        IN  /\ Len(filtered) = height * stride
            /\ \A r \in 0..(height - 1) : filtered[r * stride + 1] = 1

\* C10: a failing add_pixel or set_palette, and any write_to_file, leaves
\* the image as it was; the pixel buffer is the concatenation, in call
\* order, of the components of the add_pixel calls that returned Ok.
C10_Frame ==
    [][ /\ ((call'.op \in {"add_pixel", "set_palette"} /\ result'.kind # "Ok")
              \/ call'.op = "write_to_file") => UNCHANGED image
        /\ <<width', height', color_type'>> = <<width, height, color_type>>
        /\ data' = Flatten(appended')
      ]_vars

C10_Witness ==
    /\ call.op = "add_pixel"
    /\ result.kind = "PixelCountMismatch"
    /\ Len(appended) > 1
    /\ data = Flatten(appended)

====
